---------------------------- MODULE Spec2Model ----------------------------
(* A model of github_issue_groomer.py (Heirloom): the activity classifier,  *)
(* the breadth-first traversal of sub-issues, the two scans that feed it    *)
(* and the refresh action, against a remote tracker whose state the writes  *)
(* change.                                                                   *)
(*                                                                           *)
(* Time is an integer number of ticks; a timedelta's .days is the floor of  *)
(* ticks / TicksPerDay.  In the scans and the traversal a call of           *)
(* request_with_retries is taken by its two ways to end: it returns a       *)
(* response ("ok") or raises after its retries are exhausted ("raise");     *)
(* its retry loop is modelled on one request of its own (Attempt), and      *)
(* main's reading of its environment on its own as well (Main).             *)
EXTENDS Integers, Sequences, FiniteSets, TLC

-----------------------------------------------------------------------------
(* Bounds of the model *)

NumIssues == 3
\* issues of the repository the scans run on
ScanIssues == 2
\* the clock reading of datetime.now(), in ticks; constant over one invocation
Now == 4
TicksPerDay == 2
\* days_threshold ranges over 1..MaxThreshold
MaxThreshold == 1
\* page size of the stale scan's listing (first: 100 in the query), scaled down
ListingFirst == 2
\* number of candidates the label/type query returns (first: 50), scaled down
MaxCandidates == 2
\* remote calls that may fail (or answer without updatedAt) in one behaviour
MaxFaults == 1
\* issues of the repository whose root has a frontier wider than one batch
WideIssues == 6
\* line 254: parents per batched query (10 in the source), scaled down
batch_size == 2
\* line 255: the safety cap on visited (2000 in the source), scaled down; no
\* repository of NumIssues issues reaches it, one of WideIssues issues does
max_visit == 5

Times == 1..(Now - 1)
Thresholds == 1..MaxThreshold

\* Python's None where a number is expected, and a timestamp string that
\* datetime.fromisoformat rejects
None == -1
Unparsable == -2

-----------------------------------------------------------------------------
(* Strings are sequences of one-character strings, so that lower(),         *)
(* endswith(), startswith() and `in` are computed and not assumed.          *)

UpperCase == <<"A","B","C","D","E","F","G","H","I","J","K","L","M",
               "N","O","P","Q","R","S","T","U","V","W","X","Y","Z">>
LowerCase == <<"a","b","c","d","e","f","g","h","i","j","k","l","m",
               "n","o","p","q","r","s","t","u","v","w","x","y","z">>

LowerChar(c) ==
    IF \E k \in 1..Len(UpperCase) : UpperCase[k] = c
    THEN LowerCase[CHOOSE k \in 1..Len(UpperCase) : UpperCase[k] = c]
    ELSE c

Lower(s) == [k \in 1..Len(s) |-> LowerChar(s[k])]

EndsWith(s, suffix) ==
    /\ Len(suffix) <= Len(s)
    /\ SubSeq(s, Len(s) - Len(suffix) + 1, Len(s)) = suffix

StartsWith(s, prefix) ==
    /\ Len(prefix) <= Len(s)
    /\ SubSeq(s, 1, Len(prefix)) = prefix

Contains(s, sub) ==
    \E k \in 1..(Len(s) - Len(sub) + 1) : SubSeq(s, k, k + Len(sub) - 1) = sub

s_bot == <<"b","o","t">>
s_bot_suffix == <<"[","b","o","t","]">>
s_dependabot == <<"d","e","p","e","n","d","a","b","o","t">>
s_github_actions == <<"g","i","t","h","u","b","-","a","c","t","i","o","n","s">>

\* logins and author kinds the remote may report (<<>> is None / "")
l_alice == <<"a","l","i","c","e">>
l_some_ci_bot == <<"s","o","m","e","-","c","i","[","b","o","t","]">>
l_Dependabot == <<"D","e","p","e","n","d","a","b","o","t">>
l_Abbott == <<"A","b","b","o","t","t">>
l_github_actions_bot == s_github_actions \o s_bot_suffix
l_github_actions_dev == s_github_actions \o <<"-","d","e","v">>
l_carol == <<"c","a","r","o","l">>
t_Bot == <<"B","o","t">>
t_User == <<"U","s","e","r">>

Logins == {<<>>, l_alice, l_some_ci_bot, l_Dependabot, l_Abbott,
           l_github_actions_bot, l_github_actions_dev, l_carol}
Typenames == {<<>>, t_Bot, t_User}

-----------------------------------------------------------------------------
(* Activity classifier: get_most_recent_child_activity, lines 358-396 *)

\* lines 261-265: the ignore list, defaulting to github-actions[bot]
IgnoreActors(env_actors) ==
    IF env_actors = {} THEN {l_github_actions_bot} ELSE env_actors

\* datetime.fromisoformat(s.rstrip("Z")): the timestamp, or a ValueError
ParseOk(s) == s # Unparsable /\ s # None

\* lines 367-379
BotAuthor(last_comment_type, last_comment_author) ==
    IF last_comment_type # <<>> /\ Lower(last_comment_type) = s_bot
    THEN TRUE
    ELSE IF last_comment_author # <<>>
         THEN LET la == Lower(last_comment_author)
              IN  \/ EndsWith(la, s_bot_suffix)
                  \/ Contains(la, s_dependabot)
                  \/ StartsWith(la, s_github_actions)
                  \/ Contains(la, s_bot)
         ELSE FALSE

\* the comparison with the equal timestamps left out
CommentAfterOnly(last_comment_updated, updated_at) ==
    IF last_comment_updated # None
    THEN IF ParseOk(last_comment_updated)
         THEN last_comment_updated > updated_at
         ELSE FALSE
    ELSE FALSE

\* lines 382-388 and 390-396: the comment is what caused the update
CommentAtOrAfter(last_comment_updated, updated_at) ==
    IF last_comment_updated # None
    THEN IF ParseOk(last_comment_updated)
         THEN last_comment_updated >= updated_at
         ELSE FALSE      \* except Exception: consider_as_activity = True
    ELSE FALSE

\* lines 363-396: consider_as_activity for a descendant whose updatedAt parsed
ConsiderAsActivity(updated_at, c, ignore_actors) ==
    IF BotAuthor(c.typename, c.login)
    THEN ~CommentAtOrAfter(c.updatedAt, updated_at)
    ELSE IF c.login # <<>> /\ c.login \in ignore_actors
         THEN ~CommentAtOrAfter(c.updatedAt, updated_at)
         ELSE TRUE

NoComment == [login |-> <<>>, typename |-> <<>>, updatedAt |-> None]

-----------------------------------------------------------------------------
(* State *)

VARIABLES
    \* the remote tracker
    issues,         \* the open issues of the repository
    children,       \* issue -> set of its sub-issues
    updatedAt,      \* issue -> last-update timestamp
    lastComment,    \* issue -> its last comment (NoComment when it has none)
    \* inputs of the invocation
    mode,           \* "hierarchy" (update-all-ancestors) or "labels"
    dry_run,
    days_threshold,
    candidates,     \* label mode: the issues matching the filters, as listed
    ignore_env,     \* INPUT_IGNORE-ACTORS, as a set of logins
    actor,          \* the identity the token writes comments as
    \* process_issues_by_hierarchy / process_issues_by_labels
    pc,             \* position of the scan
    run,            \* 1 for the first invocation, 2 for an immediate second one
    page,           \* nodes of the page being processed
    idx,            \* position in page of the next node
    after_cursor,
    page_info,      \* pageInfo of the page being processed
    processed_parents,
    \* get_most_recent_child_activity
    tpc,            \* "idle", "loop", "except", "returned"
    root,           \* issue_id
    to_process,
    visited,
    most_recent_date,
    \* history
    trav_raised,    \* the current traversal ended in its except clause
    queried,        \* the batches queried by the current traversal, in order
    listed,         \* the nodes listed so far by the current run, in order
    evals,          \* one record per ancestor the current run evaluated
    posts,          \* issue of every comment POST the current run sent
    writes,         \* run -> issue of every comment the run created
    faults,         \* run -> number of remote calls that failed in the run
    calls,          \* number of calls of request_with_retries so far
    \* the classifier taken alone
    cls_in,
    cls_out,
    \* request_with_retries taken alone
    rpc,            \* "idle", "try", "returned", "raised"
    method,         \* "get" or "post"
    attempt,
    att_log,        \* how each request sent so far ended: "ok" or "fail"
    sleeps,         \* every time.sleep so far: its delay and its jitter
    applied,        \* how many times the remote applied the write
    \* main
    env             \* the INPUT_* environment and what `gh auth token` gives

remoteVars == <<issues, children, updatedAt, lastComment>>
inputVars == <<mode, dry_run, days_threshold, candidates, ignore_env, actor>>
scanVars == <<pc, run, page, idx, after_cursor, page_info, processed_parents>>
travVars == <<tpc, root, to_process, visited, most_recent_date, queried,
             trav_raised>>
logVars == <<listed, evals, posts, writes, faults, calls>>
clsVars == <<cls_in, cls_out>>
retryVars == <<rpc, method, attempt, att_log, sleeps, applied>>
vars == <<remoteVars, inputVars, scanVars, travVars, logVars, clsVars,
         retryVars, env>>

-----------------------------------------------------------------------------
(* Helpers *)

TakeAll(a, b) == a

Min(a, b) == IF a < b THEN a ELSE b

MaxOf(S) == CHOOSE x \in S : \A y \in S : y <= x

RECURSIVE SetToSeq(_)
\* the elements of a set of numbers in ascending order
SetToSeq(S) ==
    IF S = {} THEN <<>>
    ELSE LET m == CHOOSE x \in S : \A y \in S : x <= y
         IN  <<m>> \o SetToSeq(S \ {m})

Range(s) == {s[k] : k \in 1..Len(s)}

\* timedelta.days of a difference of d ticks
Days(d) == d \div TicksPerDay

\* request_with_retries, lines 29-49: a response, or the exception re-raised
\* once the retries are exhausted
FaultsLeft == faults[1] + faults[2] < MaxFaults

RequestOutcomes == IF FaultsLeft THEN {"ok", "raise"} ELSE {"ok"}

-----------------------------------------------------------------------------
(* request_with_retries, lines 29-49, one request at a time *)

\* line 29: the defaults; backoff_factor (0.5 s) is in milliseconds
max_retries == 4
backoff_factor == 500

SleepTimeLinear(a) == backoff_factor * a

\* line 47
SleepTime(a) == backoff_factor * (2 ^ (a - 1))

\* line 48: random.uniform(0, sleep_time * 0.1), at its ends and its middle
Jitters(sleep_time) == {0, sleep_time \div 20, sleep_time \div 10}

ExhaustedAtLimit(a) == a >= max_retries

\* line 45
Exhausted(a) == a > max_retries

SucceededNever(outcome) == FALSE

\* lines 38-42: the request was answered and raise_for_status let it pass
Succeeded(outcome) == outcome = "ok"

\* lines 37-41: the remote applies a write it answers with success; a request
\* that ends in a RequestException is one it did not apply
Applies(m, outcome) == m = "post" /\ outcome = "ok"

\* lines 35-49: one iteration of `while True`: send the request, then return
\* the response, or count the failure and raise or sleep
Attempt ==
    /\ rpc = "try"
    /\ \E outcome \in {"ok", "fail"} :
         /\ att_log' = Append(att_log, outcome)
         /\ applied' = applied + (IF Applies(method, outcome) THEN 1 ELSE 0)
         /\ IF Succeeded(outcome)
            THEN /\ rpc' = "returned"                          \* line 42
                 /\ UNCHANGED <<attempt, sleeps>>
            ELSE /\ attempt' = attempt + 1                     \* line 44
                 /\ IF Exhausted(attempt + 1)
                    THEN /\ rpc' = "raised"                    \* line 46
                         /\ UNCHANGED sleeps
                    ELSE /\ rpc' = "try"
                         /\ \E jitter \in Jitters(SleepTime(attempt + 1)) :
                              sleeps' = Append(sleeps,
                                [sleep_time |-> SleepTime(attempt + 1),
                                 jitter |-> jitter])
    /\ UNCHANGED <<method, remoteVars, inputVars, scanVars, travVars, logVars,
                   clsVars, env>>

-----------------------------------------------------------------------------
(* The remote's answer to the batched sub-issue query, lines 283-293 *)

SubIssueNode(c) ==
    [typename |-> "Issue", number |-> c, updatedAt |-> updatedAt[c],
     comment |-> lastComment[c]]

\* subIssues(first:100) { nodes } of one parent
SubIssueNodes(parent_num) ==
    LET ids == SetToSeq(children[parent_num])
    IN  [k \in 1..Len(ids) |-> SubIssueNode(ids[k])]

-----------------------------------------------------------------------------
(* get_most_recent_child_activity, lines 247-436 *)

\* lines 398-401
RecordMostRecentAny(mrd, updated_at, consider_as_activity) ==
    IF mrd = None \/ updated_at > mrd THEN updated_at ELSE mrd

RecordMostRecent(mrd, updated_at, consider_as_activity) ==
    IF consider_as_activity
    THEN IF mrd = None \/ updated_at > mrd THEN updated_at ELSE mrd
    ELSE mrd

\* lines 414-417 with the visited check dropped
EnqueueAlways(st, child_number) ==
    [st EXCEPT !.visited = @ \cup {child_number},
               !.queue = Append(@, child_number)]

\* lines 414-417 with visited.add forgotten
EnqueueUnmarked(st, child_number) ==
    IF child_number \notin st.visited
    THEN [st EXCEPT !.queue = Append(@, child_number)]
    ELSE st

\* lines 414-417: enqueue a child not seen before
Enqueue(st, child_number) ==
    IF child_number \notin st.visited
    THEN [st EXCEPT !.visited = @ \cup {child_number},
                    !.queue = Append(@, child_number)]
    ELSE st

RECURSIVE ProcessNodes(_, _)
\* lines 316-424: the loop over the nodes of one parent; st is
\* [mrd, visited, queue], the three locals the loop changes
ProcessNodes(st, nodes) ==
    IF nodes = <<>> THEN st
    ELSE
      LET node == Head(nodes)
          rest == Tail(nodes)
      IN
      IF node.typename # "Issue" THEN ProcessNodes(st, rest)
      ELSE IF node.number = None \/ node.updatedAt = None
           THEN ProcessNodes(st, rest)
      ELSE IF ~ParseOk(node.updatedAt)
           THEN ProcessNodes(st, rest)               \* line 356: continue
      ELSE
        LET consider == ConsiderAsActivity(node.updatedAt, node.comment,
                                            IgnoreActors(ignore_env))
            st1 == [st EXCEPT !.mrd =
                      RecordMostRecent(@, node.updatedAt, consider)]
            isNew == node.number \notin st1.visited
            st2 == Enqueue(st1, node.number)
        IN  IF isNew /\ Cardinality(st2.visited) >= max_visit
            THEN [st2 EXCEPT !.queue = <<>>]         \* lines 420-424: break
            ELSE ProcessNodes(st2, rest)

RECURSIVE ProcessParents(_, _)
\* lines 300-424: the loop over the parents of one batch
ProcessParents(st, batch) ==
    IF batch = <<>> THEN st
    ELSE ProcessParents(ProcessNodes(st, SubIssueNodes(Head(batch))),
                        Tail(batch))

\* lines 267-269
StartTraversal(issue_id) ==
    /\ tpc' = "loop"
    /\ root' = issue_id
    /\ to_process' = <<issue_id>>
    /\ visited' = {issue_id}
    /\ most_recent_date' = None
    /\ queried' = <<>>
    /\ trav_raised' = FALSE

\* lines 272-424: one iteration of `while to_process`: dequeue a batch, send
\* one query, process every node of its answer
TraverseBatch ==
    /\ tpc = "loop"
    /\ to_process # <<>>
    /\ LET n == Min(Len(to_process), batch_size)
           batch == SubSeq(to_process, 1, n)
           rest == SubSeq(to_process, n + 1, Len(to_process))
       IN  \E outcome \in RequestOutcomes :
             /\ queried' = Append(queried, batch)
             /\ calls' = calls + 1                   \* line 293
             /\ IF outcome = "ok"
                THEN LET st == ProcessParents(
                                 [mrd |-> most_recent_date,
                                  visited |-> visited, queue |-> rest], batch)
                     IN  /\ most_recent_date' = st.mrd
                         /\ visited' = st.visited
                         /\ to_process' = st.queue
                         /\ tpc' = "loop"
                         /\ UNCHANGED <<faults, trav_raised>>
                ELSE \* line 426: except Exception
                     /\ to_process' = rest
                     /\ tpc' = "except"
                     /\ trav_raised' = TRUE
                     /\ faults' = [faults EXCEPT ![run] = @ + 1]
                     /\ UNCHANGED <<most_recent_date, visited>>
    /\ UNCHANGED <<root, remoteVars, inputVars, scanVars, clsVars,
                   retryVars, env,
                   listed, evals, posts, writes>>

\* lines 272 (the loop's exit) and 426-436: return most_recent_date
TraverseReturn ==
    /\ \/ tpc = "loop" /\ to_process = <<>>
       \/ tpc = "except"
    /\ tpc' = "returned"
    /\ UNCHANGED <<root, to_process, visited, most_recent_date, queried,
                   trav_raised, remoteVars, inputVars, scanVars, logVars,
                   clsVars, retryVars, env>>

-----------------------------------------------------------------------------
(* The remote's answers to the scans' queries and to the refresh's calls *)

\* orderBy: {field: UPDATED_AT, direction: ASC}: the position of an issue in
\* the listing, which is also what a cursor holds
Key(i) == updatedAt[i] * (NumIssues + 1) + i

RECURSIVE SortByKey(_)
SortByKey(S) ==
    IF S = {} THEN <<>>
    ELSE LET m == CHOOSE x \in S : \A y \in S : Key(x) <= Key(y)
         IN  <<m>> \o SortByKey(S \ {m})

\* lines 102-111: issues(first:, states: OPEN, orderBy:, after:); `with`
\* tells whether the answer carries the nodes' updatedAt
ListPage(after, with) ==
    LET all == SortByKey({i \in issues : Key(i) > after})
        n == Min(Len(all), ListingFirst)
    IN  [nodes |-> [k \in 1..n |->
                      [number |-> all[k],
                       updatedAt |-> IF with THEN updatedAt[all[k]] ELSE None]],
         pageInfo |-> [hasNextPage |-> Len(all) > n,
                       endCursor |-> IF n = 0 THEN None ELSE Key(all[n])]]

s_comma == ","

RECURSIVE Split(_, _)
\* str.split(sep) for a separator of one character
Split(s, sep) ==
    IF \E k \in 1..Len(s) : s[k] = sep
    THEN LET k == CHOOSE j \in 1..Len(s) :
                    s[j] = sep /\ \A h \in 1..(j - 1) : s[h] # sep
         IN  <<SubSeq(s, 1, k - 1)>> \o Split(SubSeq(s, k + 1, Len(s)), sep)
    ELSE <<s>>

\* lines 459-462: value.split(",") if value else []
ParseList(value) == IF value # <<>> THEN Split(value, s_comma) ELSE <<>>

\* the environment main reads, when main is not what is modelled
NoEnv == [token |-> <<>>]

s_blank == " "

RECURSIVE Strip(_)
\* str.strip(), for the blank as the only whitespace
Strip(s) ==
    IF s # <<>> /\ Head(s) = s_blank THEN Strip(Tail(s))
    ELSE IF s # <<>> /\ s[Len(s)] = s_blank
         THEN Strip(SubSeq(s, 1, Len(s) - 1))
         ELSE s

NotEmpty(s) == s # <<>>

\* lines 193 and 197: [x.strip() for x in names if x.strip()]
StrippedNames(names) ==
    SelectSeq([k \in 1..Len(names) |-> Strip(names[k])], NotEmpty)

FilterOf(field, names) ==
    IF names # <<>> /\ StrippedNames(names) # <<>>
    THEN <<[field |-> field, names |-> StrippedNames(names)]>>
    ELSE <<>>

\* lines 191-199: the filters of the candidate query
QueryFilters(parent_labels, parent_types) ==
    FilterOf("labels", parent_labels) \o FilterOf("issueTypes", parent_types)

\* the filters of the scan that main has called; `candidates` stands for the
\* open issues that match them
FiltersOfRun ==
    IF env = NoEnv THEN <<[field |-> "labels", names |-> <<>>]>>
    ELSE QueryFilters(ParseList(env.labels), ParseList(env.types))

RECURSIVE SortByNumber(_)
SortByNumber(S) ==
    IF S = {} THEN <<>>
    ELSE LET m == CHOOSE x \in S : \A y \in S : x <= y
         IN  <<m>> \o SortByNumber(S \ {m})

\* lines 201-212: issues(first: 50<issues_arg>, states: OPEN); without a
\* filter the query lists the open issues
ListCandidates ==
    LET matching == IF FiltersOfRun = <<>>
                    THEN SubSeq(SortByNumber(issues), 1,
                                Min(Cardinality(issues), MaxCandidates))
                    ELSE candidates
    IN  [k \in 1..Len(matching) |->
           [number |-> matching[k], updatedAt |-> updatedAt[matching[k]]]]

\* the listing's query can also be answered without the nodes' updatedAt
ListingOutcomes ==
    IF FaultsLeft THEN {"ok", "raise", "partial"} ELSE {"ok"}

\* the re-fetch can also be answered with an updated_at that does not parse
RefetchOutcomes ==
    IF FaultsLeft THEN {"ok", "raise", "malformed"} ELSE {"ok"}

-----------------------------------------------------------------------------
(* add_comment_to_issue, lines 57-92 *)

PreCheckNever(issue_id, get) ==
    IF get = "raise" THEN "fetch_failed" ELSE "proceed"

PreCheckFlipped(issue_id, get) ==
    IF get = "raise" THEN "fetch_failed"
    ELSE LET updated_at_str == updatedAt[issue_id]
         IN  IF /\ updated_at_str # None
                /\ Now - updated_at_str > days_threshold * TicksPerDay
             THEN "skipped_fresh"
             ELSE "proceed"

\* lines 70-71: issue_data.get("updated_at") of the re-fetched issue
Refetched(issue_id, get) ==
    IF get = "malformed" THEN Unparsable ELSE updatedAt[issue_id]

\* lines 66-83: the re-fetch of the issue and the freshness test; the second
\* fromisoformat, line 76, is in no try block
PreCheck(issue_id, get) ==
    IF get = "raise" THEN "fetch_failed"
    ELSE LET updated_at_str == Refetched(issue_id, get)
         IN  IF updated_at_str # None
             THEN IF ~ParseOk(updated_at_str)
                  THEN "value_error"
                  ELSE IF Now - updated_at_str < days_threshold * TicksPerDay
                       THEN "skipped_fresh"
                       ELSE "proceed"
             ELSE "proceed"

AddCommentIgnoringDryRun(issue_id, get, post) ==
    LET pre == PreCheck(issue_id, get)
    IN  IF pre # "proceed" THEN pre
        ELSE IF post = "ok" THEN "posted" ELSE "post_failed"

\* lines 57-92: how a call ends, given how its two requests end
AddCommentToIssue(issue_id, get, post) ==
    LET pre == PreCheck(issue_id, get)
    IN  IF pre # "proceed" THEN pre
        ELSE IF dry_run THEN "dry_run"
        ELSE IF post = "ok" THEN "posted"
        ELSE "post_failed"       \* raised to the caller

\* what a call that ended with `outcome` did to the remote and to the logs
AddCommentEffect(issue_id, outcome) ==
    /\ IF outcome = "posted"
       THEN /\ updatedAt' = [updatedAt EXCEPT ![issue_id] = Now]
            /\ lastComment' = [lastComment EXCEPT ![issue_id] =
                 [login |-> actor.login, typename |-> actor.typename,
                  updatedAt |-> Now]]
            /\ writes' = [writes EXCEPT ![run] = Append(@, issue_id)]
       ELSE UNCHANGED <<updatedAt, lastComment, writes>>
    /\ posts' = IF outcome \in {"posted", "post_failed"}
                THEN Append(posts, issue_id) ELSE posts
    /\ faults' = IF outcome \in {"fetch_failed", "post_failed"}
                 THEN [faults EXCEPT ![run] = @ + 1] ELSE faults
    /\ calls' = calls + (IF outcome = "none" THEN 0 ELSE 1)      \* line 69
                      + (IF outcome \in {"posted", "post_failed"}
                         THEN 1 ELSE 0)                           \* line 91
    /\ UNCHANGED <<issues, children>>

-----------------------------------------------------------------------------
(* The scans' shared bookkeeping *)

IdleTraversal ==
    /\ tpc' = "idle"
    /\ root' = None
    /\ to_process' = <<>>
    /\ visited' = {}
    /\ most_recent_date' = None
    /\ queried' = <<>>
    /\ trav_raised' = FALSE

\* lines 164-166 and 233-236
WithinThresholdInclusive(most_recent_child_activity) ==
    /\ most_recent_child_activity # None
    /\ Days(Now - most_recent_child_activity) <= days_threshold

WithinThreshold(most_recent_child_activity) ==
    /\ most_recent_child_activity # None
    /\ Days(Now - most_recent_child_activity) < days_threshold

EvalRecord(number, pos, outcome) ==
    [number |-> number, pos |-> pos, result |-> most_recent_date,
     raised |-> trav_raised, outcome |-> outcome]

RaisesToScanAlso(outcome) == outcome \in {"value_error", "post_failed"}

RaisesToScanOnRefetch(outcome) == outcome \in {"value_error", "fetch_failed"}

\* lines 168-171 and 237-240: the scans catch a RequestException of
\* add_comment_to_issue and nothing else
RaisesToScan(outcome) == outcome = "value_error"

-----------------------------------------------------------------------------
(* process_issues_by_hierarchy, lines 95-185 *)

\* line 117
Cutoff == Now - days_threshold * TicksPerDay

\* lines 119-135: request one page
HierarchyFetch ==
    /\ mode = "hierarchy"
    /\ pc = "fetch"
    /\ calls' = calls + 1                            \* line 121
    /\ \E outcome \in ListingOutcomes :
         IF outcome = "raise"
         THEN /\ pc' = "crashed"
              /\ faults' = [faults EXCEPT ![run] = @ + 1]
              /\ UNCHANGED <<page, idx, page_info, listed>>
         ELSE LET resp == ListPage(after_cursor, outcome = "ok")
              IN  /\ faults' = IF outcome = "partial"
                               THEN [faults EXCEPT ![run] = @ + 1] ELSE faults
                  /\ IF resp.nodes = <<>>
                     THEN /\ pc' = "done"          \* lines 133-135
                          /\ UNCHANGED <<page, idx, page_info, listed>>
                     ELSE /\ pc' = "item"
                          /\ page' = resp.nodes
                          /\ idx' = 1
                          /\ page_info' = resp.pageInfo
                          /\ listed' = listed \o resp.nodes
    /\ UNCHANGED <<run, after_cursor, processed_parents, remoteVars, inputVars,
                   travVars, clsVars, retryVars, env, evals, posts, writes>>

StaleCheckOff(updated_at_str) == FALSE

\* lines 145-156: the node is newer than the cutoff
NewerThanCutoff(updated_at_str) ==
    /\ updated_at_str # None
    /\ ParseOk(updated_at_str)
    /\ updated_at_str > Cutoff

\* lines 158-160
AlreadyProcessed(issue_number) == issue_number \in processed_parents

AddsWhenRefreshed(wants, outcome) == outcome \in {"posted", "dry_run"}

\* lines 166-172: processed_parents.add follows the try block, whatever
\* add_comment_to_issue did, short of an exception the scan does not catch
AddsToProcessed(wants, outcome) == wants

\* lines 140-163: one node of the page, up to the call of the traversal
HierarchyItem ==
    /\ mode = "hierarchy"
    /\ pc = "item"
    /\ idx <= Len(page)
    /\ LET issue == page[idx]
       IN  IF issue.number = None
           THEN /\ idx' = idx + 1
                /\ UNCHANGED <<pc, travVars>>
           ELSE IF NewerThanCutoff(issue.updatedAt)
           THEN \* stop_all: lines 155-156 and 178-180
                /\ pc' = "done"
                /\ UNCHANGED <<idx, travVars>>
           ELSE IF AlreadyProcessed(issue.number)
           THEN /\ idx' = idx + 1
                /\ UNCHANGED <<pc, travVars>>
           ELSE /\ StartTraversal(issue.number)
                /\ pc' = "traverse"
                /\ idx' = idx
    /\ UNCHANGED <<run, page, after_cursor, page_info, processed_parents,
                   remoteVars, inputVars, logVars, clsVars, retryVars, env>>

\* lines 164-175: the traversal has returned
HierarchyRefresh ==
    /\ mode = "hierarchy"
    /\ pc = "traverse"
    /\ tpc = "returned"
    /\ LET issue_number == page[idx].number
       IN  \E get \in RefetchOutcomes, post \in RequestOutcomes :
             LET wants == WithinThreshold(most_recent_date)
                 outcome == IF wants
                            THEN AddCommentToIssue(issue_number, get, post)
                            ELSE "none"
             IN  /\ AddCommentEffect(issue_number, outcome)
                 /\ evals' = Append(evals,
                      EvalRecord(issue_number,
                                 Len(listed) - Len(page) + idx, outcome))
                 /\ IF RaisesToScan(outcome)
                    THEN \* the exception leaves the scan and main
                         /\ pc' = "aborted"
                         /\ UNCHANGED <<idx, processed_parents>>
                    ELSE /\ pc' = "item"
                         /\ idx' = idx + 1
                         /\ processed_parents' =               \* line 172
                              IF AddsToProcessed(wants, outcome)
                              THEN processed_parents \cup {issue_number}
                              ELSE processed_parents
    /\ IdleTraversal
    /\ UNCHANGED <<run, page, after_cursor, page_info, inputVars, clsVars,
                   retryVars, env,
                   listed>>

\* lines 177-185: the page is exhausted
HierarchyPageEnd ==
    /\ mode = "hierarchy"
    /\ pc = "item"
    /\ idx > Len(page)
    /\ IF ~page_info.hasNextPage
       THEN /\ pc' = "done"
            /\ UNCHANGED after_cursor
       ELSE /\ pc' = "fetch"
            /\ after_cursor' = page_info.endCursor
    /\ UNCHANGED <<run, page, idx, page_info, processed_parents, remoteVars,
                   inputVars, travVars, logVars, clsVars, retryVars, env>>

-----------------------------------------------------------------------------
(* process_issues_by_labels, lines 188-244 *)

\* lines 214-226: the candidate query
LabelsFetch ==
    /\ mode = "labels"
    /\ pc = "fetch"
    /\ calls' = calls + 1                            \* line 215
    /\ \E outcome \in RequestOutcomes :
         IF outcome = "raise"
         THEN /\ pc' = "crashed"
              /\ faults' = [faults EXCEPT ![run] = @ + 1]
              /\ UNCHANGED <<page, idx, listed>>
         ELSE /\ pc' = "item"
              /\ page' = ListCandidates
              /\ idx' = 1
              /\ listed' = ListCandidates
              /\ UNCHANGED faults
    /\ UNCHANGED <<run, after_cursor, page_info, processed_parents, remoteVars,
                   inputVars, travVars, clsVars, retryVars, env,
                   evals, posts, writes>>

\* lines 228-232: one candidate, up to the call of the traversal
LabelsItem ==
    /\ mode = "labels"
    /\ pc = "item"
    /\ idx <= Len(page)
    /\ StartTraversal(page[idx].number)
    /\ pc' = "traverse"
    /\ UNCHANGED <<run, page, idx, after_cursor, page_info, processed_parents,
                   remoteVars, inputVars, logVars, clsVars, retryVars, env>>

\* lines 233-244: the traversal has returned
LabelsRefresh ==
    /\ mode = "labels"
    /\ pc = "traverse"
    /\ tpc = "returned"
    /\ LET issue_number == page[idx].number
       IN  \E get \in RefetchOutcomes, post \in RequestOutcomes :
             LET wants == WithinThreshold(most_recent_date)
                 outcome == IF wants
                            THEN AddCommentToIssue(issue_number, get, post)
                            ELSE "none"
             IN  /\ AddCommentEffect(issue_number, outcome)
                 /\ evals' = Append(evals,
                                    EvalRecord(issue_number, idx, outcome))
                 /\ IF RaisesToScan(outcome)
                    THEN /\ pc' = "aborted"
                         /\ idx' = idx
                    ELSE /\ pc' = "item"
                         /\ idx' = idx + 1
    /\ IdleTraversal
    /\ UNCHANGED <<run, page, after_cursor, page_info, processed_parents,
                   inputVars, clsVars, retryVars, env, listed>>

\* line 228: the loop over the candidates ends
LabelsEnd ==
    /\ mode = "labels"
    /\ pc = "item"
    /\ idx > Len(page)
    /\ pc' = "done"
    /\ UNCHANGED <<run, page, idx, after_cursor, page_info, processed_parents,
                   remoteVars, inputVars, travVars, logVars, clsVars,
                   retryVars, env>>

-----------------------------------------------------------------------------
(* main, lines 452-593 *)

s_true == <<"t","r","u","e">>

\* lines 472-473: (value or "false").lower() == "true"
ParseFlag(value) == Lower(value) = s_true

\* lines 455 and 480-509: the token of the environment, else the one of
\* `gh auth token`
Token == IF env.token # <<>> THEN env.token ELSE env.gh_token

\* line 521: int(value), for the values of one digit
IsInt(value) == value \in {<<"1">>, <<"2">>, <<"3">>}
ToInt(value) == CHOOSE n \in 1..3 : value = <<<<"1", "2", "3">>[n]>>

\* line 511: not all([token, repo_owner, repo_name])
MissingRequired ==
    Token = <<>> \/ env.repo_owner = <<>> \/ env.repo_name = <<>>

MissingFiltersNever(parent_labels, parent_types) == FALSE

\* line 590
MissingFilters(parent_labels, parent_types) ==
    parent_labels = <<>> /\ parent_types = <<>>

\* lines 452-593: main up to the call of a scan or of the inspection
Main ==
    /\ pc = "main"
    /\ IF MissingRequired
       THEN /\ pc' = "exit1"                                    \* line 513
            /\ UNCHANGED <<mode, travVars>>
       ELSE IF env.inspect # <<>>
       THEN IF ~IsInt(env.inspect)
            THEN /\ pc' = "exit1"                               \* line 524
                 /\ UNCHANGED <<mode, travVars>>
            ELSE /\ pc' = "traverse"                            \* line 531
                 /\ mode' = "inspect"
                 /\ StartTraversal(ToInt(env.inspect))
       ELSE IF ParseFlag(env.update_all_ancestors)
       THEN /\ pc' = "fetch"                                    \* line 588
            /\ mode' = "hierarchy"
            /\ UNCHANGED travVars
       ELSE IF MissingFilters(ParseList(env.labels), ParseList(env.types))
       THEN /\ pc' = "exit1"                                    \* line 592
            /\ UNCHANGED <<mode, travVars>>
       ELSE /\ pc' = "fetch"                                    \* line 593
            /\ mode' = "labels"
            /\ UNCHANGED travVars
    /\ UNCHANGED <<dry_run, days_threshold, candidates, ignore_env, actor,
                   run, page, idx, after_cursor, page_info, processed_parents,
                   remoteVars, logVars, clsVars, retryVars, env>>

-----------------------------------------------------------------------------
(* An immediate second invocation of the stale scan *)

\* main, lines 587-588, called again once the first call has returned
Restart ==
    /\ pc = "done"
    /\ run = 1
    /\ run' = 2
    /\ pc' = "fetch"
    /\ page' = <<>>
    /\ idx' = 1
    /\ after_cursor' = None
    /\ page_info' = [hasNextPage |-> FALSE, endCursor |-> None]
    /\ processed_parents' = {}
    /\ listed' = <<>>
    /\ evals' = <<>>
    /\ posts' = <<>>
    /\ UNCHANGED <<remoteVars, inputVars, travVars, clsVars, retryVars, env,
                   writes, faults, calls>>

-----------------------------------------------------------------------------
(* The classifier applied to one descendant *)

\* lines 316-401 on a single node: the node's timestamp when it counts as
\* activity, None when it is discounted or skipped
Classify ==
    /\ pc = "classify"
    /\ pc' = "classified"
    /\ cls_out' = ProcessNodes([mrd |-> None, visited |-> {},
                                queue |-> <<>>], <<cls_in>>).mrd
    /\ UNCHANGED <<cls_in, retryVars, env, run, page, idx, after_cursor,
                   page_info,
                   processed_parents, remoteVars, inputVars, travVars,
                   logVars>>

-----------------------------------------------------------------------------
(* Initial states *)

SeqsUpTo(S, n) == UNION {[1..k -> S] : k \in 0..n}

\* the identities a token can write as: the Actions bot, or a user
ActionsBot == [login |-> s_github_actions, typename |-> t_Bot]
Actors == {ActionsBot, [login |-> l_carol, typename |-> t_User]}

\* a last comment left by a CI bot at the time of the issue's last update
CiComment(t) == [login |-> l_some_ci_bot, typename |-> t_Bot, updatedAt |-> t]

\* sub-issue links: any relation in which no issue is its own sub-issue
LoopFree(n) == {g \in [1..n -> SUBSET (1..n)] : \A i \in 1..n : i \notin g[i]}
AllGraphs(n) == [1..n -> SUBSET (1..n)]

\* the timestamps at most one day old: on either side of a one-day cutoff
LastDay == {t \in Times : Now - t <= TicksPerDay}

InitRemote(n, graphs, times) ==
    /\ issues = 1..n
    /\ children \in graphs
    /\ updatedAt \in [1..n -> times]
    /\ \E bots \in SUBSET (1..n) :
         lastComment = [i \in 1..n |->
                          IF i \in bots THEN CiComment(updatedAt[i])
                          ELSE NoComment]

InitIdle ==
    /\ run = 1
    /\ page = <<>>
    /\ idx = 1
    /\ after_cursor = None
    /\ page_info = [hasNextPage |-> FALSE, endCursor |-> None]
    /\ processed_parents = {}
    /\ listed = <<>>
    /\ evals = <<>>
    /\ posts = <<>>
    /\ writes = <<<<>>, <<>>>>
    /\ faults = <<0, 0>>
    /\ calls = 0

InitNoClassify ==
    /\ cls_in = [typename |-> "Issue", number |-> None, updatedAt |-> None,
                 comment |-> NoComment]
    /\ cls_out = None

InitNoRetry ==
    /\ rpc = "idle"
    /\ method = "get"
    /\ attempt = 0
    /\ att_log = <<>>
    /\ sleeps = <<>>
    /\ applied = 0

InitNoTraversal ==
    /\ tpc = "idle"
    /\ root = None
    /\ to_process = <<>>
    /\ visited = {}
    /\ most_recent_date = None
    /\ queried = <<>>
    /\ trav_raised = FALSE

\* main, lines 455-474 and 587-593: one invocation of either scan
Init ==
    /\ InitRemote(ScanIssues, LoopFree(ScanIssues), Times)
    /\ mode \in {"hierarchy", "labels"}
    /\ dry_run \in BOOLEAN
    /\ days_threshold \in Thresholds
    /\ candidates \in IF mode = "labels"
                      THEN SeqsUpTo(issues, MaxCandidates) ELSE {<<>>}
    /\ ignore_env = {}
    /\ actor \in IF dry_run THEN {ActionsBot} ELSE Actors
    /\ pc = "fetch"
    /\ InitIdle
    /\ InitNoClassify
    /\ InitNoRetry
    /\ env = NoEnv
    /\ InitNoTraversal

Next ==
    \/ HierarchyFetch
    \/ HierarchyItem
    \/ HierarchyRefresh
    \/ HierarchyPageEnd
    \/ LabelsFetch
    \/ LabelsItem
    \/ LabelsRefresh
    \/ LabelsEnd
    \/ TraverseBatch
    \/ TraverseReturn

Spec == Init /\ [][Next]_vars

\* the stale scan on a larger repository, not in dry-run, run once and then
\* a second time in immediate succession
InitStale ==
    /\ InitRemote(NumIssues, LoopFree(NumIssues), LastDay)
    /\ mode = "hierarchy"
    /\ dry_run = FALSE
    /\ days_threshold \in Thresholds
    /\ candidates = <<>>
    /\ ignore_env = {}
    /\ actor \in Actors
    /\ pc = "fetch"
    /\ InitIdle
    /\ InitNoClassify
    /\ InitNoRetry
    /\ env = NoEnv
    /\ InitNoTraversal

NextStale ==
    \/ HierarchyFetch
    \/ HierarchyItem
    \/ HierarchyRefresh
    \/ HierarchyPageEnd
    \/ TraverseBatch
    \/ TraverseReturn
    \/ Restart

SpecStale == InitStale /\ [][NextStale]_vars

\* one call of get_most_recent_child_activity on issue 1 of any graph
InitTraverse ==
    /\ InitRemote(NumIssues, AllGraphs(NumIssues), Times)
    /\ mode = "inspect"
    /\ dry_run = TRUE
    /\ days_threshold \in Thresholds
    /\ candidates = <<>>
    /\ ignore_env = {}
    /\ actor = ActionsBot
    /\ pc = "traverse"
    /\ InitIdle
    /\ InitNoClassify
    /\ InitNoRetry
    /\ env = NoEnv
    /\ tpc = "loop"
    /\ root = 1
    /\ to_process = <<1>>
    /\ visited = {1}
    /\ most_recent_date = None
    /\ queried = <<>>
    /\ trav_raised = FALSE

NextTraverse ==
    \/ TraverseBatch
    \/ TraverseReturn

SpecTraverse == InitTraverse /\ [][NextTraverse]_vars

\* last-update values as the batched query may carry them: a timestamp, or
\* a string that fromisoformat rejects
GarbledTimes == {Now - 1, Unparsable}

\* one call of get_most_recent_child_activity on issue 1 of any graph, some
\* of whose issues carry a last-update that does not parse
InitGarbled ==
    /\ InitRemote(NumIssues, AllGraphs(NumIssues), GarbledTimes)
    /\ mode = "inspect"
    /\ dry_run = TRUE
    /\ days_threshold = 1
    /\ candidates = <<>>
    /\ ignore_env = {}
    /\ actor = ActionsBot
    /\ pc = "traverse"
    /\ InitIdle
    /\ InitNoClassify
    /\ InitNoRetry
    /\ env = NoEnv
    /\ tpc = "loop"
    /\ root = 1
    /\ to_process = <<1>>
    /\ visited = {1}
    /\ most_recent_date = None
    /\ queried = <<>>
    /\ trav_raised = FALSE

NextGarbled ==
    \/ TraverseBatch
    \/ TraverseReturn

SpecGarbled == InitGarbled /\ [][NextGarbled]_vars

\* sub-issue links of a repository of WideIssues issues: issue 1 has some of
\* 2..4 as sub-issues, and each of these some of the remaining issues
WideGraphs ==
    {[i \in 1..WideIssues |->
        IF i = 1 THEN top ELSE IF i \in 2..4 THEN low[i] ELSE {}] :
       top \in SUBSET (2..4), low \in [2..4 -> SUBSET (5..WideIssues)]}

\* one call of get_most_recent_child_activity on an issue whose sub-issues
\* fill more than one batch and whose descendants reach the safety cap
InitWide ==
    /\ issues = 1..WideIssues
    /\ children \in WideGraphs
    /\ updatedAt \in [1..WideIssues -> LastDay]
    /\ \E bots \in {{}, {5}} :
         lastComment = [i \in 1..WideIssues |->
                          IF i \in bots THEN CiComment(updatedAt[i])
                          ELSE NoComment]
    /\ mode = "inspect"
    /\ dry_run = TRUE
    /\ days_threshold = 1
    /\ candidates = <<>>
    /\ ignore_env = {}
    /\ actor = ActionsBot
    /\ pc = "traverse"
    /\ InitIdle
    /\ InitNoClassify
    /\ InitNoRetry
    /\ env = NoEnv
    /\ tpc = "loop"
    /\ root = 1
    /\ to_process = <<1>>
    /\ visited = {1}
    /\ most_recent_date = None
    /\ queried = <<>>
    /\ trav_raised = FALSE

NextWide ==
    \/ TraverseBatch
    \/ TraverseReturn

SpecWide == InitWide /\ [][NextWide]_vars

\* the values of an INPUT_* variable that holds a name, and of one that
\* holds a list of names
l_epic == <<"e","p","i","c">>
NameInputs == {<<>>, l_carol}
ListInputs == {<<>>, l_epic, l_epic \o <<",">> \o l_carol, <<",">>, <<" ">>}

Envs ==
    [token : NameInputs, gh_token : NameInputs,
     repo_owner : NameInputs, repo_name : NameInputs,
     labels : ListInputs, types : {<<>>, l_epic, <<" ">>},
     update_all_ancestors : {<<>>, s_true, <<"T","r","u","e">>},
     inspect : {<<>>, <<"x">>, <<"1">>}]

\* main called with any environment, up to the first answer of the tracker
InitMain ==
    /\ InitRemote(ScanIssues, LoopFree(ScanIssues), {Now - 1})
    /\ mode = "unset"
    /\ dry_run = TRUE
    /\ days_threshold = 1
    /\ candidates = <<1>>
    /\ ignore_env = {}
    /\ actor = ActionsBot
    /\ pc = "main"
    /\ InitIdle
    /\ InitNoClassify
    /\ InitNoRetry
    /\ env \in Envs
    /\ InitNoTraversal

NextMain ==
    \/ Main
    \/ HierarchyFetch
    \/ LabelsFetch
    \/ TraverseBatch
    \/ TraverseReturn

SpecMain == InitMain /\ [][NextMain]_vars

\* the classifier on one descendant
ClassifyInputs ==
    [typename : {"Issue"}, number : {2}, updatedAt : Times \cup {Unparsable},
     comment : [login : Logins, typename : Typenames,
                updatedAt : Times \cup {None, Unparsable}]]

InitClassify ==
    /\ issues = {}
    /\ children = <<>>
    /\ updatedAt = <<>>
    /\ lastComment = <<>>
    /\ mode = "inspect"
    /\ dry_run = TRUE
    /\ days_threshold = 1
    /\ candidates = <<>>
    /\ ignore_env \in {{}, {l_carol}}
    /\ actor = ActionsBot
    /\ pc = "classify"
    /\ InitIdle
    /\ cls_in \in ClassifyInputs
    /\ cls_out = None
    /\ InitNoRetry
    /\ env = NoEnv
    /\ InitNoTraversal

NextClassify == Classify

SpecClassify == InitClassify /\ [][NextClassify]_vars

\* one call of request_with_retries with the default arguments
InitRetry ==
    /\ issues = {}
    /\ children = <<>>
    /\ updatedAt = <<>>
    /\ lastComment = <<>>
    /\ mode = "request"
    /\ dry_run = FALSE
    /\ days_threshold = 1
    /\ candidates = <<>>
    /\ ignore_env = {}
    /\ actor = ActionsBot
    /\ pc = "request"
    /\ InitIdle
    /\ InitNoClassify
    /\ env = NoEnv
    /\ InitNoTraversal
    /\ rpc = "try"
    /\ method \in {"get", "post"}
    /\ attempt = 0
    /\ att_log = <<>>
    /\ sleeps = <<>>
    /\ applied = 0

NextRetry == Attempt

SpecRetry == InitRetry /\ [][NextRetry]_vars

-----------------------------------------------------------------------------
(* What the claims speak of, stated from their words *)

RECURSIVE Closure(_)
\* the least set holding S and the sub-issues of its members
Closure(S) ==
    LET T == S \cup UNION {children[i] : i \in S}
    IN  IF T = S THEN S ELSE Closure(T)

\* the issues reachable from r through one or more child links
Descendants(r) == Closure(children[r])

\* a last comment by a bot, as the claim lists the patterns
ListedBotPattern(c) ==
    \/ Lower(c.typename) = s_bot
    \/ EndsWith(Lower(c.login), s_bot_suffix)
    \/ Contains(Lower(c.login), s_dependabot)
    \/ Contains(Lower(c.login), s_bot)

\* the same, with the login prefix 'github-actions' the code also tests
BotPattern(c) ==
    \/ ListedBotPattern(c)
    \/ StartsWith(Lower(c.login), s_github_actions)

\* the comment carries a timestamp at or after the issue's last update
CausedUpdate(c, updated_at) ==
    /\ c.updatedAt \notin {None, Unparsable}
    /\ c.updatedAt >= updated_at

Discounted(updated_at, c, ignored) ==
    /\ BotPattern(c) \/ c.login \in ignored
    /\ CausedUpdate(c, updated_at)

Genuine(i) ==
    ~Discounted(updatedAt[i], lastComment[i], IgnoreActors(ignore_env))

\* the maximum last-update over the genuine descendants of r, or None
GenuineMax(r) ==
    LET G == {updatedAt[d] : d \in {x \in Descendants(r) : Genuine(x)}}
    IN  IF G = {} THEN None ELSE MaxOf(G)

RECURSIVE Flatten(_)
Flatten(ss) == IF ss = <<>> THEN <<>> ELSE Head(ss) \o Flatten(Tail(ss))

NoDuplicates(q) == \A a, b \in 1..Len(q) : q[a] = q[b] => a = b

-----------------------------------------------------------------------------
(* C2: a traversal that met no remote failure and stayed below the safety   *)
(* cap returns the maximum last-update over the genuine descendants of its  *)
(* root, and None when there is no descendant or all are discounted.        *)
C2_ReturnsGenuineMax ==
    (tpc = "returned" /\ ~trav_raised /\ Cardinality(visited) < max_visit)
      => most_recent_date = GenuineMax(root)

\* a returned traversal that found genuine activity two links below the root
\* and passed over a later, discounted descendant
C2_Witness ==
    /\ tpc = "returned"
    /\ ~trav_raised
    /\ most_recent_date # None
    /\ \E d \in Descendants(root) \ children[root] :
         Genuine(d) /\ updatedAt[d] = most_recent_date
    /\ \E d \in Descendants(root) :
         ~Genuine(d) /\ updatedAt[d] > most_recent_date

-----------------------------------------------------------------------------
(* C5 as stated: a descendant is not genuine exactly when its last comment  *)
(* is by a bot (kind Bot, or a login ending in '[bot]', containing          *)
(* 'dependabot' or containing 'bot') or by an ignored actor, and that       *)
(* comment is at or after the descendant's last update.                     *)
C5_AsStated ==
    (pc = "classified" /\ ParseOk(cls_in.updatedAt)) =>
      (cls_out = None <=>
         /\ \/ ListedBotPattern(cls_in.comment)
            \/ cls_in.comment.login \in IgnoreActors(ignore_env)
         /\ CausedUpdate(cls_in.comment, cls_in.updatedAt))

(* C5 amended: the bot patterns also include a login starting with          *)
(* 'github-actions'; a descendant is not genuine exactly when its last      *)
(* comment is by such a bot or by an ignored actor and is at or after its   *)
(* last update; in every other case its timestamp is what counts.           *)
C5_Classification ==
    (pc = "classified" /\ ParseOk(cls_in.updatedAt)) =>
      /\ cls_out = None <=>
           Discounted(cls_in.updatedAt, cls_in.comment,
                      IgnoreActors(ignore_env))
      /\ cls_out # None => cls_out = cls_in.updatedAt

\* a user whose login starts with 'github-actions' commented last, at the
\* time of the update, and the update was discounted
C5_Witness ==
    /\ pc = "classified"
    /\ cls_in.comment.login = l_github_actions_dev
    /\ cls_in.comment.typename = t_User
    /\ cls_in.comment.updatedAt = cls_in.updatedAt
    /\ cls_out = None

-----------------------------------------------------------------------------
(* C6: the traversal of any graph, cyclic or not, terminates and returns a  *)
(* timestamp or None: every iteration of its loop that is followed by       *)
(* another lowers the number of issues not yet visited plus the length of   *)
(* the queue, which is never negative, and what it returns is one of the    *)
(* timestamps or None.                                                      *)
Rank == Cardinality(issues \ visited) + Len(to_process)

C6_Terminates ==
    [][/\ (tpc = "loop" /\ tpc' = "loop") => (Rank' < Rank /\ Rank' >= 0)
       /\ tpc' = "returned" => most_recent_date' \in Times \cup {None}]_vars

\* a traversal has returned from a root that is its own descendant
C6_Witness ==
    /\ tpc = "returned"
    /\ ~trav_raised
    /\ root \in Descendants(root)
    /\ Len(queried) >= 2

-----------------------------------------------------------------------------
(* C7: during a traversal visited only grows, and no identifier is queued   *)
(* or expanded twice: the identifiers of the batches queried so far and of  *)
(* the queue are all different, and all are in visited.                     *)
C7_VisitedOnce ==
    [][/\ tpc' # "idle" => visited \subseteq visited'
       /\ NoDuplicates(Flatten(queried') \o to_process')
       /\ Range(Flatten(queried') \o to_process') \subseteq visited']_vars

\* every issue was expanded, and a child link led back to a visited one
C7_Witness ==
    /\ tpc = "returned"
    /\ Len(Flatten(queried)) = NumIssues
    /\ \E i \in issues : root \in children[i]

-----------------------------------------------------------------------------
(* The scans' claims *)

\* the step in which a scan, its traversal of `root` returned, decides on the
\* refresh and carries it out
RefreshStep == pc = "traverse" /\ tpc = "returned" /\ pc' = "item"

\* a comment write was issued, or in dry-run the intended write was recorded
Refreshed(e) == e.outcome \in {"posted", "post_failed", "dry_run"}

\* the maximum genuine descendant timestamp exists and is less than
\* days_threshold days old
DescendantActivityWithin(r) ==
    /\ GenuineMax(r) # None
    /\ Days(Now - GenuineMax(r)) < days_threshold

\* the issue's own last update is within days_threshold days of now
OwnUpdateWithin(i) == Now - updatedAt[i] < days_threshold * TicksPerDay

Count(q, x) == Cardinality({k \in 1..Len(q) : q[k] = x})

C3_AtMostOneWrite == \A i \in issues : Count(writes[run], i) <= 1

\* the label scan was handed the same issue twice and commented on it once
C3_Witness ==
    /\ mode = "labels"
    /\ pc = "done"
    /\ Len(candidates) = 2
    /\ candidates[1] = candidates[2]
    /\ writes[run] = <<candidates[1]>>
    /\ Len(evals) = 2

(* C8: when the ancestor's own last update, as re-fetched by the refresh,   *)
(* is within days_threshold days of now, no comment write is issued for it, *)
(* although a descendant has genuine activity within the threshold.         *)
C8_FreshAncestorNotWritten ==
    [][(RefreshStep /\ OwnUpdateWithin(root)) =>
         /\ posts' = posts
         /\ writes' = writes
         /\ updatedAt' = updatedAt
         /\ lastComment' = lastComment]_vars

\* a fresh ancestor with descendant activity within the threshold, not
\* in dry-run, was left without a comment
C8_Witness ==
    /\ ~dry_run
    /\ \E k \in 1..Len(evals) :
         /\ evals[k].outcome = "skipped_fresh"
         /\ evals[k].result # None
         /\ Days(Now - evals[k].result) < days_threshold
    /\ posts = <<>>

(* C9: in dry-run no comment-creation request is sent and the remote is     *)
(* left as it was; the intended write is only recorded.                     *)
C9_DryRunNoWrite ==
    dry_run =>
      /\ posts = <<>>
      /\ writes = <<<<>>, <<>>>>
      /\ \A k \in 1..Len(evals) :
           evals[k].outcome \notin {"posted", "post_failed"}
      /\ \A i \in issues : updatedAt[i] # Now

\* a dry run recorded a write it would have made
C9_Witness ==
    /\ dry_run
    /\ pc = "done"
    /\ \E k \in 1..Len(evals) : evals[k].outcome = "dry_run"

-----------------------------------------------------------------------------
(* The stale scan's claims *)

\* the listing so far carries every updatedAt and is in ascending order
ListedAscending ==
    /\ \A a \in 1..Len(listed) : listed[a].updatedAt # None
    /\ \A a, b \in 1..Len(listed) :
         a < b => listed[a].updatedAt <= listed[b].updatedAt

\* the listed node at index k is newer than now - days_threshold days
Newer(k) == listed[k].updatedAt > Now - days_threshold * TicksPerDay

FirstNewer(k) == Newer(k) /\ \A j \in 1..(k - 1) : ~Newer(j)

\* the index of the last node of the page that holds index k
PageEnd(k) == (((k - 1) \div ListingFirst) + 1) * ListingFirst

(* C4: when the stale scan's listing is in ascending last-update order and  *)
(* item k is the first newer than the cutoff, only items before k are       *)
(* evaluated, all of them once the scan is done, and no page after the one  *)
(* holding k is fetched.                                                    *)
C4_EarlyExit ==
    \A k \in 1..Len(listed) :
      (mode = "hierarchy" /\ ListedAscending /\ FirstNewer(k)) =>
        /\ \A n \in 1..Len(evals) : evals[n].pos < k
        /\ pc = "traverse" => Len(listed) - Len(page) + idx < k
        /\ Len(listed) <= PageEnd(k)
        /\ pc = "done" => {evals[n].pos : n \in 1..Len(evals)} = 1..(k - 1)

\* the scan evaluated the first item, stopped at the second, which was
\* newer than the cutoff, and left the next page unfetched
C4_Witness ==
    /\ pc = "done"
    /\ ListedAscending
    /\ Len(listed) = 2
    /\ FirstNewer(2)
    /\ page_info.hasNextPage
    /\ Len(evals) = 1

-----------------------------------------------------------------------------
(* The retry layer's claims *)

\* the number of requests sent so far by the call
Sent == Len(att_log)

AllFailed == \A k \in 1..Len(att_log) : att_log[k] = "fail"

(* C11 as stated: a call of request_with_retries with the defaults sends    *)
(* the request at most 4 times in total.                                    *)
C11_AsStated == Sent <= 4

(* C11 amended: with the defaults a call sends the request at most 5 times  *)
(* in total, the first attempt and max_retries = 4 retries; when every      *)
(* attempt fails it is sent exactly 5 times, nothing is applied, and the    *)
(* failure is then raised with no further attempt.                          *)
C11_AtMostFiveSends ==
    /\ Sent <= max_retries + 1
    /\ rpc = "raised" <=> (AllFailed /\ Sent = max_retries + 1)
    /\ rpc = "raised" => (attempt = max_retries + 1 /\ applied = 0)
    /\ rpc = "try" => Sent <= max_retries

\* the fifth request has failed and the call has raised
C11_Witness ==
    /\ rpc = "raised"
    /\ att_log = <<"fail", "fail", "fail", "fail", "fail">>

C20_Backoff ==
    /\ \A k \in 1..Len(sleeps) :
         /\ sleeps[k].sleep_time = <<500, 1000, 2000, 4000>>[k]
         /\ k > 1 => sleeps[k].sleep_time = 2 * sleeps[k - 1].sleep_time
         /\ sleeps[k].jitter >= 0
         /\ 10 * sleeps[k].jitter <= sleeps[k].sleep_time
    /\ Len(sleeps) <= max_retries
    /\ Len(sleeps) = attempt - (IF rpc = "raised" THEN 1 ELSE 0)
    /\ rpc = "raised" => Len(sleeps) = Sent - 1

\* a call slept four times, each time with some jitter, and then raised
C20_Witness ==
    /\ rpc = "raised"
    /\ Len(sleeps) = 4
    /\ \A k \in 1..4 : sleeps[k].jitter > 0
    /\ sleeps[4].sleep_time + sleeps[4].jitter = 4400

-----------------------------------------------------------------------------
(* The traversal's claims on failure and on the safety cap *)

(* C13 as stated: once the number of visited identifiers reaches the cap no *)
(* further identifier is added, so visited never holds more than max_visit  *)
(* identifiers.                                                             *)
C13_AsStated == Cardinality(visited) <= max_visit

(* C14 as stated: a traversal one of whose batch queries failed still       *)
(* returns, and by then has expanded the identifiers that were waiting in   *)
(* the queue when the query failed: none is left in the queue.              *)
C14_AsStated == (tpc = "returned" /\ trav_raised) => to_process = <<>>

-----------------------------------------------------------------------------
(* The scans' claims on failure *)

\* the listed item at index k was evaluated
Evaluated(k) == \E n \in 1..Len(evals) : evals[n].pos = k

\* the stale scan met, at or before index k, an item newer than the cutoff
StoppedBy(k) == \E j \in 1..k : Newer(j)

\* a finished scan has evaluated every candidate of its listing: the label
\* scan all of them, the stale scan all that come before the first item newer
\* than the cutoff and are not yet in processed_parents
AllEvaluated ==
    IF mode = "labels"
    THEN \A k \in 1..Len(candidates) : Evaluated(k)
    ELSE \A k \in 1..Len(listed) :
           \/ Evaluated(k)
           \/ StoppedBy(k)
           \/ listed[k].number \in processed_parents

\* the evaluation that failed: a batch of its traversal, the re-fetch of the
\* pre-check or the comment write raised after the retries
FailedEval(e) == e.raised \/ e.outcome \in {"fetch_failed", "post_failed"}

(* C15: in both scans a request that fails while one candidate is being     *)
(* evaluated (a traversal batch, the pre-check's re-fetch, the comment      *)
(* write) leaves the scan running, which moves on to the next candidate and *)
(* has evaluated every candidate when it ends; the only failed request that *)
(* ends the run is the scan's own listing query.                            *)
C15_FailureDoesNotAbort ==
    [][/\ (pc = "traverse" /\ faults' # faults) =>
            \/ pc' = "traverse" /\ tpc' = "except"
            \/ pc' = "item" /\ idx' = idx + 1
       /\ pc' = "crashed" => (pc = "fetch" /\ faults' # faults)
       /\ pc' = "done" => AllEvaluated']_vars

\* a scan ended after evaluating a candidate that came after one whose
\* evaluation had failed
C15_Witness ==
    /\ pc = "done"
    /\ \E a, b \in 1..Len(evals) :
         /\ FailedEval(evals[a])
         /\ evals[b].pos > evals[a].pos
         /\ evals[b].number # evals[a].number

(* C16 as stated: a malformed remote response, the ancestor re-fetch with   *)
(* an unparsable last-update value included, is treated as no data for that *)
(* item, and the run never ends with an unhandled error.                    *)
C16_AsStated == pc # "aborted"

-----------------------------------------------------------------------------
(* The classifier's claim on timestamps that do not parse *)

\* the timestamp of the last comment is one the classifier reads: the
\* comment's author is a bot or an ignored actor
CommentTimeUsed(c) ==
    BotPattern(c) \/ (c.login # <<>> /\ c.login \in IgnoreActors(ignore_env))

(* C17 as stated: a descendant whose own last-update does not parse, or     *)
(* whose last comment's timestamp is read by the classifier and does not    *)
(* parse, is left out of the running maximum.                               *)
C17_AsStated ==
    (/\ pc = "classified"
     /\ \/ cls_in.updatedAt = Unparsable
        \/ CommentTimeUsed(cls_in.comment)
             /\ cls_in.comment.updatedAt = Unparsable)
      => cls_out = None

-----------------------------------------------------------------------------
(* main's claim on configuration errors *)

\* the run is one of the label scan: update-all-ancestors is not set and no
\* single issue is to be inspected
LabelMode ==
    /\ Lower(env.update_all_ancestors) # s_true
    /\ env.inspect = <<>>

\* no token from the environment or from gh, no repository owner or name,
\* or in label mode neither a label nor a type filter
ConfigError ==
    \/ env.token = <<>> /\ env.gh_token = <<>>
    \/ env.repo_owner = <<>>
    \/ env.repo_name = <<>>
    \/ LabelMode /\ env.labels = <<>> /\ env.types = <<>>

(* C18: when the token, the repository owner or the repository name is      *)
(* missing, or in label mode both filter inputs are empty, main exits with  *)
(* status 1 and no request has been sent to the tracker.                    *)
C18_ConfigErrorIsFatal ==
    ConfigError =>
      /\ pc \in {"main", "exit1"}
      /\ calls = 0
      /\ tpc = "idle"

\* main had its token and repository but neither filter in label mode, and
\* has exited
C18_Witness ==
    /\ pc = "exit1"
    /\ Token # <<>> /\ env.repo_owner # <<>> /\ env.repo_name # <<>>
    /\ LabelMode
    /\ env.labels = <<>> /\ env.types = <<>>

-----------------------------------------------------------------------------
(* The stale scan's claim on processed_parents *)

\* the evaluations of the run that went as far as calling the refresh and
\* came back to the scan
Attempted ==
    {n \in 1..Len(evals) : evals[n].outcome \notin {"none", "value_error"}}

-----------------------------------------------------------------------------
(* The traversal's claims on its queue *)

\* q starts with p
IsPrefix(p, q) == Len(p) <= Len(q) /\ SubSeq(q, 1, Len(p)) = p

(* C21: identifiers leave the queue in the order they entered it: each      *)
(* query covers the identifiers at the head of the queue, at least one and  *)
(* at most batch_size of them and as many as the queue holds up to that     *)
(* number; what was queued behind them stays ahead of what the batch adds   *)
(* (unless the cap empties the queue); and each dequeued batch costs        *)
(* exactly one remote query.                                                *)
C21_FifoBatches ==
    [][/\ queried' # queried =>
            LET b == queried'[Len(queried')]
                rest == SubSeq(to_process, Len(b) + 1, Len(to_process))
            IN  /\ queried' = Append(queried, b)
                /\ Len(b) >= 1
                /\ Len(b) <= batch_size
                /\ Len(b) = Len(to_process) \/ Len(b) = batch_size
                /\ IsPrefix(b, to_process)
                /\ IsPrefix(rest, to_process') \/ to_process' = <<>>
                /\ calls' = calls + 1
       /\ calls' # calls => queried' # queried
       /\ to_process' # to_process => queried' # queried]_vars

\* three sub-issues of the root left the queue as a full batch and a batch
\* of one, in the order they were queued
C21_Witness ==
    /\ tpc = "returned"
    /\ ~trav_raised
    /\ Len(queried) >= 3
    /\ queried[1] = <<root>>
    /\ Len(queried[2]) = batch_size
    /\ Len(queried[3]) = 1
    /\ Flatten(queried) = SetToSeq(1..4)
    /\ calls = Len(queried)

(* C22 as stated: a traversal that met no failure and stayed below the cap  *)
(* has marked visited, queued and expanded every descendant of its root,    *)
(* however the descendant was classified: discounted, or left out of the    *)
(* maximum because its last-update does not parse.                          *)
C22_AsStated ==
    (tpc = "returned" /\ ~trav_raised /\ Cardinality(visited) < max_visit)
      => /\ Descendants(root) \subseteq visited
         /\ Descendants(root) \subseteq Range(Flatten(queried))

-----------------------------------------------------------------------------
(* The candidate query of the label/type-seeded scan *)

\* the label/type-seeded scan, called by main, has sent its candidate query
CandidateQueryIssued == env # NoEnv /\ mode = "labels" /\ calls >= 1

(* C23 as stated: whenever the label/type-seeded scan has issued its        *)
(* candidate query, for any label and type inputs that passed main's check, *)
(* the query carried a label filter or a type filter, and what it listed    *)
(* are matching issues only, never the open issues unfiltered.              *)
C23_AsStated ==
    CandidateQueryIssued =>
      /\ QueryFilters(ParseList(env.labels), ParseList(env.types)) # <<>>
      /\ \A k \in 1..Len(listed) : listed[k].number \in Range(candidates)

-----------------------------------------------------------------------------
(* The refresh whose re-fetch of the ancestor fails *)

\* a scan's call of the refresh ends at the except clause of lines 81-83
RefetchFailed ==
    /\ pc = "traverse"
    /\ Len(evals') = Len(evals) + 1
    /\ evals'[Len(evals')].outcome = "fetch_failed"

=============================================================================
